---- MODULE Spec2Model ----
(***************************************************************************)
(* Model of src/blooms/blooms.py: the class blooms, a Bloom filter derived *)
(* from bytearray.  A filter is a record [kind, cells]: cells is the       *)
(* bytearray content (a sequence of 0..255), kind says whether the class   *)
(* of the instance carries an _encode attribute (blooms.specialize).       *)
(***************************************************************************)
EXTENDS Integers, Sequences, FiniteSets

(* ------------------------------ bounds --------------------------------- *)

\* Largest filter length (bytes) an instance is created with.
MaxLen == 3

\* Largest length (bytes) of a bytes-like argument.
MaxValLen == 5

\* Largest number of elements of an iterable argument.
MaxItems == 2

\* Bytes-like arguments: the byte strings of every length up to MaxValLen
\* that repeat a pattern of period 1, 2 or 3 over the bytes 0 and 11 (all
\* 0, all 11, 0 11 0 11 .., 11 0 0 11 0 0 .., and so on).  The most
\* significant byte of a chunk stays below 128 so that an index fits the
\* integers TLC computes with (Python's int is unbounded: nothing wraps in the code).
Values ==
    {[i \in 1..n |-> IF i % p = r THEN 11 ELSE 0] :
        n \in 0..MaxValLen, p \in 1..3, r \in 0..3}

\* Bytes-like objects that appear as elements of an iterable argument.
ItemVals == {<<0>>, <<11, 11>>, <<0, 11, 0, 0, 11>>}

(* ----------------------- arguments of @= ------------------------------- *)

\* An element an iterable yields: a bytes-like object, or something that is
\* not one (an int such as 123).
BytesElem(v) == [isBytes |-> TRUE, val |-> v]
IntElem == [isBytes |-> FALSE, val |-> <<>>]
Elems == {BytesElem(v) : v \in ItemVals} \cup {IntElem}

\* The three shapes of argument: bytes / bytearray, a non-iterable object
\* (an int), an iterable.
BytesArg(v) == [tag |-> "bytes", items |-> <<BytesElem(v)>>]
IntArg == [tag |-> "int", items |-> <<>>]
IterArg(s) == [tag |-> "iter", items |-> s]
NoArg == [tag |-> "none", items |-> <<>>]

Iterables == UNION {[1..n -> Elems] : n \in 0..MaxItems}
ValidIterables == UNION {[1..n -> {BytesElem(v) : v \in ItemVals}] : n \in 0..MaxItems}
Args == {BytesArg(v) : v \in Values} \cup {IntArg} \cup {IterArg(s) : s \in Iterables}
ValidArgs == {BytesArg(v) : v \in ItemVals} \cup {IterArg(s) : s \in ValidIterables}

(* --------------------------- kinds ------------------------------------- *)

Kinds == {"plain", "custom"}

RECURSIVE SumBytes(_)
SumBytes(bs) == IF bs = <<>> THEN 0 ELSE Head(bs) + SumBytes(Tail(bs))

\* The encode function handed to specialize: any function from bytes to
\* bytes.  The one modelled is a two-byte digest,
\*   lambda x: bytes([11 * (sum(x) % 2), len(x) % 2]).
Digest(bs) == <<11 * (SumBytes(bs) % 2), Len(bs) % 2>>

\* bs = getattr(type(self), '_encode')(bs) if hasattr(self, '_encode') else bs
Encode(kind, bs) == IF kind = "custom" THEN Digest(bs) ELSE bs

(* ------------------------ bytes and bits ------------------------------- *)

ByteMod == 256
ChunkSize == 4
BitsPerByte == 8

Zeros(n) == [i \in 1..n |-> 0]

\* (x >> k) % 2
Bit(x, k) == (x \div (2 ^ k)) % 2

\* x | 2**k
OrPow2(x, k) == IF Bit(x, k) = 1 THEN x ELSE x + 2 ^ k

\* x | y on ints
RECURSIVE BitOr(_, _)
BitOr(x, y) ==
    IF x = 0 THEN y
    ELSE IF y = 0 THEN x
    ELSE (IF x % 2 = 1 \/ y % 2 = 1 THEN 1 ELSE 0) + 2 * BitOr(x \div 2, y \div 2)

\* A variant of FromBytesLittle: int.from_bytes(bs, 'big').
RECURSIVE FromBytesBig(_)
FromBytesBig(bs) ==
    IF bs = <<>> THEN 0
    ELSE bs[Len(bs)] + 256 * FromBytesBig(SubSeq(bs, 1, Len(bs) - 1))

\* int.from_bytes(bs, 'little')
RECURSIVE FromBytesLittle(_)
FromBytesLittle(bs) ==
    IF bs = <<>> THEN 0 ELSE Head(bs) + ByteMod * FromBytesLittle(Tail(bs))

Min(x, y) == IF x <= y THEN x ELSE y

\* bs[i:i + 4] (i counted from 0)
Slice(bs, i) == SubSeq(bs, i + 1, Min(i + ChunkSize, Len(bs)))

(* ---------------------------- __imatmul__ ------------------------------ *)

\* A variant of SetIndex: self[index_byte % len(self)] ^= 2**index_bit.
SetIndexXor(cells, index) ==
    [cells EXCEPT ![((index \div 8) % Len(cells)) + 1] =
                      IF Bit(@, index % 8) = 1 THEN @ - 2 ^ (index % 8)
                                               ELSE @ + 2 ^ (index % 8)]

\* self[index_byte % len(self)] |= 2**index_bit, for the index of one chunk.
\* Called with len(self) >= 1 only (InsertChunks raises before it otherwise).
SetIndex(cells, index) ==
    [cells EXCEPT ![((index \div BitsPerByte) % Len(cells)) + 1] =
                      OrPow2(@, index % BitsPerByte)]

\* for i in range(0, len(bs), 4): ...   from position i on.  With an empty
\* bytearray, index_byte % len(self) raises ZeroDivisionError.
RECURSIVE InsertChunks(_, _, _)
InsertChunks(cells, bs, i) ==
    IF i >= Len(bs) THEN [cells |-> cells, err |-> "ok"]
    ELSE IF Len(cells) = 0 THEN [cells |-> cells, err |-> "ZeroDivisionError"]
    ELSE InsertChunks(SetIndex(cells, FromBytesLittle(Slice(bs, i))), bs, i + ChunkSize)

\* for bs in bss: ...   An element that is not bytes-like raises TypeError
\* (from len(bs), or from the encode function) when the loop reaches it;
\* what earlier elements wrote stays written.
RECURSIVE InsertItems(_, _, _)
InsertItems(kind, cells, items) ==
    IF items = <<>> THEN [cells |-> cells, err |-> "ok"]
    ELSE IF ~Head(items).isBytes THEN [cells |-> cells, err |-> "TypeError"]
    ELSE LET r == InsertChunks(cells, Encode(kind, Head(items).val), 0)
         IN  IF r.err # "ok" THEN r ELSE InsertItems(kind, r.cells, Tail(items))

\* f @= arg : the cells of f afterwards and the exception raised, if any.
IMatMul(f, arg) ==
    IF arg.tag = "int" THEN [cells |-> f.cells, err |-> "TypeError"]
    ELSE InsertItems(f.kind, f.cells, arg.items)

(* ---------------------------- __rmatmul__ ------------------------------ *)

RECURSIVE TestChunks(_, _, _)
TestChunks(cells, bs, i) ==
    IF i >= Len(bs) THEN "True"
    ELSE IF Len(cells) = 0 THEN "ZeroDivisionError"
    ELSE LET index == FromBytesLittle(Slice(bs, i))
         IN  IF Bit(cells[((index \div BitsPerByte) % Len(cells)) + 1],
                    index % BitsPerByte) # 1
             THEN "False"
             ELSE TestChunks(cells, bs, i + ChunkSize)

\* A variant of RMatMul: the argument is tested as it is, not encoded.
RMatMulRaw(f, v) == TestChunks(f.cells, v, 0)

\* A variant of RMatMul: only the full chunks of the argument are tested,
\*   for i in range(0, len(argument) - len(argument) % 4, 4): ...
RMatMulFullChunks(f, v) ==
    LET bs == Encode(f.kind, v)
    IN  TestChunks(f.cells, SubSeq(bs, 1, Len(bs) - (Len(bs) % 4)), 0)

\* v @ f : "True", "False", or the exception raised.
RMatMul(f, v) == TestChunks(f.cells, Encode(f.kind, v), 0)

(* ------------------------- __or__ and issubset ------------------------- *)

NoFilter == [kind |-> "plain", cells |-> <<>>]

\* x & y on ints
RECURSIVE BitAnd(_, _)
BitAnd(x, y) ==
    IF x = 0 \/ y = 0 THEN 0
    ELSE (IF x % 2 = 1 /\ y % 2 = 1 THEN 1 ELSE 0) + 2 * BitAnd(x \div 2, y \div 2)

\* A variant of ZipOr: blooms([s & o for (s, o) in zip(self, other)]).
ZipAnd(f, g) ==
    [kind |-> "plain",
     cells |-> [i \in 1..Min(Len(f.cells), Len(g.cells)) |-> BitAnd(f.cells[i], g.cells[i])]]

\* blooms([s | o for (s, o) in zip(self, other)]): zip stops at the shorter
\* operand; the result is built by the class blooms itself.
ZipOr(f, g) ==
    [kind |-> "plain",
     cells |-> [i \in 1..Min(Len(f.cells), Len(g.cells)) |-> BitOr(f.cells[i], g.cells[i])]]

\* A variant of Or: the lengths are not compared.
OrUnguarded(f, g) == [err |-> "ok", ret |-> ZipOr(f, g)]

\* f | g : the exception raised ("ok" if none) and the instance returned.
Or(f, g) ==
    IF Len(f.cells) # Len(g.cells)
    THEN [err |-> "ValueError", ret |-> NoFilter]
    ELSE [err |-> "ok", ret |-> ZipOr(f, g)]

\* A variant of ZipAllLeq: all(x < y for (x, y) in zip(self, other)).
ZipAllLt(f, g) ==
    \A i \in 1..Min(Len(f.cells), Len(g.cells)) : f.cells[i] < g.cells[i]

\* all(x <= y for (x, y) in zip(self, other))
ZipAllLeq(f, g) ==
    \A i \in 1..Min(Len(f.cells), Len(g.cells)) : f.cells[i] <= g.cells[i]

\* f.issubset(g) : "True", "False", or the exception raised.
IsSubset(f, g) ==
    IF Len(f.cells) # Len(g.cells) THEN "ValueError"
    ELSE IF ZipAllLeq(f, g) THEN "True" ELSE "False"

(* ------------------------------ state ---------------------------------- *)

VARIABLES
    a,      \* a filter
    b,      \* a second filter, of the same kind
    ab,     \* a filter of a's length that receives every value a or b receives
    ret,    \* the instance the last call returned (NoFilter if none)
    last,   \* the last call: op, argument, operands' cells before it, outcome
    mark    \* an argument of an earlier insertion into a that succeeded

vars == <<a, b, ab, ret, last, mark>>

New(kind, n) == [kind |-> kind, cells |-> Zeros(n)]

Call(op, arg, pre, preB, out) ==
    [op |-> op, arg |-> arg, pre |-> pre, preB |-> preB, out |-> out]

(* ------------------- one filter: insertion and query ------------------- *)

\* blooms(n), or a specialized class's instance of length n.
InitIns ==
    /\ a \in {New(k, n) : k \in Kinds, n \in 0..MaxLen}
    /\ b = NoFilter
    /\ ab = NoFilter
    /\ ret = NoFilter
    /\ mark = NoArg
    /\ last = Call("new", NoArg, a.cells, <<>>, "ok")

\* a @= arg
Insert(arg) ==
    LET r == IMatMul(a, arg)
    IN  /\ a' = [a EXCEPT !.cells = r.cells]
        /\ last' = Call("insert", arg, a.cells, <<>>, r.err)
        /\ ret' = NoFilter
        /\ UNCHANGED <<b, ab, mark>>

\* v @ a
Query(v) ==
    /\ last' = Call("query", BytesArg(v), a.cells, <<>>, RMatMul(a, v))
    /\ ret' = NoFilter
    /\ UNCHANGED <<a, b, ab, mark>>

NextIns ==
    \/ \E arg \in Args : Insert(arg)
    \/ \E v \in Values : Query(v)

SpecIns == InitIns /\ [][NextIns]_vars

(* ------------- one filter: insertions, one of them marked -------------- *)

\* a @= arg.  With m, and if no argument is marked yet and the call raised
\* nothing, arg becomes the marked argument.
InsertMark(arg, m) ==
    LET r == IMatMul(a, arg)
    IN  /\ a' = [a EXCEPT !.cells = r.cells]
        /\ mark' = IF m /\ mark = NoArg /\ r.err = "ok" THEN arg ELSE mark
        /\ last' = Call("insert", NoArg, <<>>, <<>>, r.err)
        /\ ret' = NoFilter
        /\ UNCHANGED <<b, ab>>

\* v @ a, for the k-th element v of the marked argument
QueryMarked(k) ==
    /\ k \in 1..Len(mark.items)
    /\ last' = Call("query", BytesArg(mark.items[k].val), <<>>, <<>>,
                    RMatMul(a, mark.items[k].val))
    /\ ret' = NoFilter
    /\ UNCHANGED <<a, b, ab, mark>>

NextMem ==
    \/ \E arg \in Args, m \in BOOLEAN : InsertMark(arg, m)
    \/ \E k \in 1..MaxItems : QueryMarked(k)

SpecMem == InitIns /\ [][NextMem]_vars

(* ---------------- two filters: insertion, union, subset ---------------- *)

RECURSIVE Reverse(_)
Reverse(s) == IF s = <<>> THEN <<>> ELSE Append(Reverse(Tail(s)), Head(s))

\* The elements of arg inserted into f one call at a time, last element
\* first:  for bs in reversed(items): f @= bs
RECURSIVE InsertEach(_, _)
InsertEach(f, items) ==
    IF items = <<>> THEN f
    ELSE InsertEach([f EXCEPT !.cells = IMatMul(f, BytesArg(Head(items).val)).cells],
                    Tail(items))

\* Two instances of one class, of any two lengths, and a third of the
\* first one's length.
Init ==
    /\ \E k \in Kinds, n \in 0..MaxLen, m \in 0..MaxLen :
          /\ a = New(k, n)
          /\ b = New(k, m)
          /\ ab = New(k, n)
    /\ ret = NoFilter
    /\ mark = NoArg
    /\ last = Call("new", NoArg, a.cells, b.cells, "ok")

\* a @= arg, and the elements of arg into ab
InsertA(arg) ==
    LET r == IMatMul(a, arg)
    IN  /\ a' = [a EXCEPT !.cells = r.cells]
        /\ ab' = InsertEach(ab, Reverse(arg.items))
        /\ last' = Call("insert", NoArg, <<>>, <<>>, r.err)
        /\ ret' = NoFilter
        /\ UNCHANGED <<b, mark>>

\* b @= arg, and the elements of arg into ab
InsertB(arg) ==
    LET r == IMatMul(b, arg)
    IN  /\ b' = [b EXCEPT !.cells = r.cells]
        /\ ab' = InsertEach(ab, Reverse(arg.items))
        /\ last' = Call("insert", NoArg, <<>>, <<>>, r.err)
        /\ ret' = NoFilter
        /\ UNCHANGED <<a, mark>>

\* a | b
Union ==
    LET r == Or(a, b)
    IN  /\ ret' = r.ret
        /\ last' = Call("union", NoArg, a.cells, b.cells, r.err)
        /\ UNCHANGED <<a, b, ab, mark>>

\* a.issubset(b)
Subset ==
    /\ last' = Call("issubset", NoArg, a.cells, b.cells, IsSubset(a, b))
    /\ ret' = NoFilter
    /\ UNCHANGED <<a, b, ab, mark>>

Next ==
    \/ \E arg \in ValidArgs : InsertA(arg)
    \/ \E arg \in ValidArgs : InsertB(arg)
    \/ Union
    \/ Subset

Spec == Init /\ [][Next]_vars

(* ------------------------------ claims --------------------------------- *)

AllZero(cells) == \A i \in 1..Len(cells) : cells[i] = 0

Bits == 0..7

\* Every bit set in cells x is set in cells y, cell by cell.
BitsIncluded(x, y) ==
    \A i \in 1..Len(x), k \in Bits : Bit(x[i], k) = 1 => Bit(y[i], k) = 1

\* The argument is neither bytes-like nor an iterable of bytes-like objects.
IsInvalid(arg) ==
    \/ arg.tag = "int"
    \/ \E k \in 1..Len(arg.items) : ~arg.items[k].isBytes

\* The value of the last call's bytes-like argument.
LastVal == last.arg.items[1].val

\* The bit positions <<cell, bit>> (cells counted from 1) of a byte string
\* in a filter of n bytes: one per chunk of four bytes, a short last chunk
\* counting with the bytes it has; ceil(L / 4) chunks.
ByteAt(bs, p) == IF p <= Len(bs) THEN bs[p] ELSE 0
ChunkIndex(bs, j) ==
    ByteAt(bs, 4 * j + 1) + 256 * ByteAt(bs, 4 * j + 2)
        + 65536 * ByteAt(bs, 4 * j + 3) + 16777216 * ByteAt(bs, 4 * j + 4)
Positions(bs, n) ==
    {<<((ChunkIndex(bs, j) \div 8) % n) + 1, ChunkIndex(bs, j) % 8>> :
        j \in 0..(((Len(bs) + 3) \div 4) - 1)}

\* C1: no false negatives.  Once an argument (a bytes-like object, or an
\* iterable of them) has been inserted into a filter of length >= 1, plain or
\* specialized, every value of it is accepted by the filter, in every state
\* further insertions lead to; and so says every query made for one of them.
NoFalseNegatives ==
    (mark # NoArg /\ Len(a.cells) >= 1) =>
        /\ \A k \in 1..Len(mark.items) : RMatMul(a, mark.items[k].val) = "True"
        /\ last.op = "query" => last.out = "True"

NoFalseNegativesWitness ==
    /\ mark.tag = "iter"
    /\ Len(mark.items) = 2
    /\ a.kind = "custom"
    /\ Len(a.cells) >= 2
    /\ a.cells # InsertItems(a.kind, Zeros(Len(a.cells)), mark.items).cells
    /\ last.op = "query"
    /\ last.out = "True"

\* C2: for filters of equal length, issubset returns True exactly if every
\* bit set in the first is set in the second, at the same cell and offset.
SubsetIffBitsIncluded ==
    (last.op = "issubset" /\ Len(a.cells) = Len(b.cells)) =>
        (last.out = "True" <=> BitsIncluded(a.cells, b.cells))

\* C3: an insertion whose argument is neither bytes-like nor an iterable of
\* bytes-like objects raises TypeError and leaves the cells as they were.
InvalidInsertLeavesCells ==
    (last.op = "insert" /\ IsInvalid(last.arg) /\ Len(last.pre) >= 1) =>
        /\ last.out = "TypeError"
        /\ a.cells = last.pre

\* C4, as stated: a filter of zero cells only rejects every query, the query
\* for the value of length zero included.
FreshRejectsEveryQuery ==
    (last.op = "query" /\ Len(a.cells) >= 1 /\ AllZero(a.cells)) =>
        last.out = "False"

\* C4, amended: a filter of length >= 1 whose cells are all zero rejects the
\* query for every value whose encoded length is at least one byte, and
\* accepts the value whose encoded length is zero.
FreshRejectsNonEmpty ==
    (last.op = "query" /\ Len(a.cells) >= 1 /\ AllZero(a.cells)) =>
        IF Len(Encode(a.kind, LastVal)) >= 1
        THEN last.out = "False"
        ELSE last.out = "True"

FreshRejectsNonEmptyWitness ==
    /\ last.op = "query"
    /\ Len(a.cells) >= 1
    /\ AllZero(a.cells)
    /\ Len(LastVal) = 3
    /\ last.out = "False"

\* C5: union and issubset of two filters of different lengths raise
\* ValueError, return nothing, and leave both operands as they were.
LengthMismatchRaises ==
    (last.op \in {"union", "issubset"} /\ Len(last.pre) # Len(last.preB)) =>
        /\ last.out = "ValueError"
        /\ ret = NoFilter
        /\ a.cells = last.pre
        /\ b.cells = last.preB

LengthMismatchWitness ==
    /\ last.op = "union"
    /\ last.out = "ValueError"
    /\ Len(a.cells) # Len(b.cells)
    /\ ~AllZero(a.cells)
    /\ ~AllZero(b.cells)

\* The returned filter has the bitwise OR of the operands' cells.
RetIsBitwiseOr ==
    /\ last.out = "ok"
    /\ Len(ret.cells) = Len(last.pre)
    /\ \A i \in 1..Len(ret.cells), k \in Bits :
          Bit(ret.cells[i], k) = 1 <=> (Bit(a.cells[i], k) = 1 \/ Bit(b.cells[i], k) = 1)
    /\ a.cells = last.pre
    /\ b.cells = last.preB

\* C6: the union of two filters of equal length is a filter of that length
\* whose cells are the bitwise OR of theirs, the operands are unchanged, and
\* every value either operand accepts is accepted by the union.
UnionCorrect ==
    (last.op = "union" /\ Len(last.pre) = Len(last.preB)) =>
        /\ RetIsBitwiseOr
        /\ \A v \in Values :
              (RMatMul(a, v) = "True" \/ RMatMul(b, v) = "True")
                  => RMatMul(ret, v) = "True"

\* C6 for instances of the class blooms itself (no encoding).
UnionCorrectPlain ==
    a.kind = "plain" => UnionCorrect

\* C6 without the queries: the cells of the union, whatever the class.
UnionCells ==
    (last.op = "union" /\ Len(last.pre) = Len(last.preB)) => RetIsBitwiseOr

\* C7: inserting a value into a filter of length >= 1 that it has just been
\* inserted into changes no cell.
InsertTwiceSameCells ==
    (last.op = "insert" /\ last.arg.tag = "bytes" /\ Len(last.pre) >= 1) =>
        /\ last.out = "ok"
        /\ IMatMul(a, last.arg) = [cells |-> a.cells, err |-> "ok"]

InsertTwiceWitness ==
    /\ last.op = "insert"
    /\ last.arg.tag = "bytes"
    /\ Len(LastVal) = 5
    /\ ~AllZero(last.pre)
    /\ a.cells # last.pre

\* C8: issubset is reflexive, and two filters of equal length each a subset
\* of the other have the same cells.
SubsetReflexiveAntisymmetric ==
    /\ IsSubset(a, a) = "True"
    /\ IsSubset(b, b) = "True"
    /\ (IsSubset(a, b) = "True" /\ IsSubset(b, a) = "True") => a.cells = b.cells
    /\ (last.op = "issubset" /\ a.cells = b.cells) => last.out = "True"

SubsetReflexiveWitness ==
    /\ last.op = "issubset"
    /\ last.out = "True"
    /\ a.cells = b.cells
    /\ ~AllZero(a.cells)

\* C9: inserting one bytes-like value into a filter of length >= 1 sets the
\* bits at the positions of its (encoded) chunks, read little-endian, and
\* changes nothing else: no other bit, no cleared bit, the same length.
InsertSetsExactlyPositions ==
    (last.op = "insert" /\ last.arg.tag = "bytes" /\ Len(last.pre) >= 1) =>
        LET P == Positions(Encode(a.kind, LastVal), Len(last.pre))
        IN  /\ last.out = "ok"
            /\ Len(a.cells) = Len(last.pre)
            /\ Cardinality(P) <= (Len(Encode(a.kind, LastVal)) + 3) \div 4
            /\ \A i \in 1..Len(a.cells) : a.cells[i] \in 0..255
            /\ \A i \in 1..Len(a.cells), k \in Bits :
                  Bit(a.cells[i], k) = 1 <=> (Bit(last.pre[i], k) = 1 \/ <<i, k>> \in P)

InsertSetsPositionsWitness ==
    /\ last.op = "insert"
    /\ last.arg.tag = "bytes"
    /\ a.kind = "plain"
    /\ Len(LastVal) = 5
    /\ Len(last.pre) = 3
    /\ Cardinality(Positions(LastVal, Len(last.pre))) = 2
    /\ ~AllZero(last.pre)
    /\ a.cells # last.pre

\* C10: the union of two filters of one length >= 1, each built from zero
\* cells by insertions (of single values or of iterables), has the cells of
\* the filter of that length into which all their values were inserted, one
\* at a time and in another order.
UnionAgreesWithInsertion ==
    (last.op = "union" /\ Len(a.cells) = Len(b.cells) /\ Len(a.cells) >= 1) =>
        /\ last.out = "ok"
        /\ ret.cells = ab.cells

UnionAgreesWitness ==
    /\ last.op = "union"
    /\ Len(a.cells) = Len(b.cells)
    /\ Len(a.cells) >= 2
    /\ ~AllZero(a.cells)
    /\ ~AllZero(b.cells)
    /\ ~BitsIncluded(a.cells, b.cells)
    /\ ~BitsIncluded(b.cells, a.cells)
    /\ ret.cells = ab.cells

====
